---- MODULE Spec2Model ----
(***************************************************************************)
(* LD clustering of cdpybio.analysis: ld_prune and ld_expand.              *)
(*                                                                         *)
(* A variant table (df) is a sequence of rows keyed by chrom:end.  The LD  *)
(* source of a chromosome answers the point query [p-1, p) with a list of  *)
(* records whose last field is "p1:p2:r2".  r2 is kept in ten-thousandths  *)
(* (0.8 is 8000, 0.7999 is 7999).                                          *)
(***************************************************************************)
EXTENDS Integers, Sequences, FiniteSets, TLC

\* ---------------------------------------------------------------- bounds
\* rows of the variant table; LD records in all the sources of one call
MaxRows == 3
MaxRecs == 3

ChromList == <<"chr1", "chr2">>
Chroms == {ChromList[i] : i \in 1..Len(ChromList)}
\* the 1-based positions that occur on each chromosome
PosOn(c) == IF c = "chr1" THEN {100, 105, 110} ELSE {100}
PVals == {1, 2}
R2Vals == {7999, 8000}

\* the LD threshold 0.8 of `float(r2) >= 0.8`, in ten-thousandths
Tau == 8000

VARIABLES op, df, ld_beds, ldsrc, queried, pc, todo, chrom, tdf, j, ld_d,
          keep, out, out_snps, bt, raised, run, out1

vars == <<op, df, ld_beds, ldsrc, queried, pc, todo, chrom, tdf, j, ld_d,
          keep, out, out_snps, bt, raised, run, out1>>

\* ------------------------------------------------------------ data model
\* '{}:{}'.format(chrom, x): the index label of a variant
Format(c, x) == <<c, x>>

AllKeys == UNION {{Format(c, x) : x \in PosOn(c)} : c \in Chroms}

ChromRank(c) == CHOOSE i \in 1..Len(ChromList) : ChromList[i] = c

KeyLess(a, b) ==
    \/ ChromRank(a[1]) < ChromRank(b[1])
    \/ a[1] = b[1] /\ a[2] < b[2]

\* a row of the table returned by parse_grasp_gwas / parse_roadmap_gwas:
\* index chrom:end, columns chrom, end, pvalue (start = end - 1)
MkRow(k, pv) == [key |-> k, chrom |-> k[1], end |-> k[2], pvalue |-> pv]

RECURSIVE SortedTable(_, _)
SortedTable(S, pv) ==
    IF S = {} THEN <<>>
    ELSE LET k == CHOOSE a \in S : \A b \in S \ {a} : KeyLess(a, b)
         IN <<MkRow(k, pv[k])>> \o SortedTable(S \ {k}, pv)

\* the tables the parsers produce: unique keys, sorted by chromosome and
\* position, at most MaxRows rows
Tables ==
    UNION {{SortedTable(S, pv) : pv \in [S -> PVals]} :
           S \in {S \in SUBSET AllKeys : Cardinality(S) <= MaxRows}}

Range(s) == {s[i] : i \in 1..Len(s)}

IndexOf(t) == {t[i].key : i \in 1..Len(t)}

Perms(S) ==
    {s \in [1..Cardinality(S) -> S] : \A a \in S : \E i \in DOMAIN s : s[i] = a}

\* df[df['chrom'].astype(str) == chrom]
RowsOn(t, c) == SelectSeq(t, LAMBDA r : r.chrom = c)

NaNRow(k) == [key |-> k, chrom |-> "NaN", end |-> 0, pvalue |-> 0]

\* df.ix[k]: the row labelled k, a row of missing values when there is none
Ix(t, k) ==
    IF k \in IndexOf(t) THEN t[CHOOSE i \in 1..Len(t) : t[i].key = k]
    ELSE NaNRow(k)

\* ------------------------------------------------------------- LD source
\* a record's last field "p1:p2:r2" after split(':'): the list of its
\* pieces.  A piece that is the text of no number is kept as -1.
Rec(p1, p2, r2) == <<p1, p2, r2>>

RecRank(n) == IF Len(n) = 3 THEN n[2] * 10000 + n[3] ELSE n[2] * 10000

\* the records of an intact source for the query at p on c
WellFormed(c, p) == {Rec(p, q, v) : q \in PosOn(c), v \in R2Vals}

\* records of a corrupt source: "x:q:0.8", "p:x:0.7999", "p:x:0.8",
\* "p:p:x" and "p:p"
Malformed(c, p) ==
    {Rec(-1, q, 8000) : q \in PosOn(c)} \cup
    {Rec(p, -1, v) : v \in R2Vals} \cup {Rec(p, p, -1), <<p, p>>}

\* the record lists of at most room records, in file order
RecLists(A, room) ==
    {s \in UNION {[1..n -> A] : n \in 0..room} :
        \A i \in 1..(Len(s) - 1) : RecRank(s[i]) <= RecRank(s[i + 1])}

\* what one point query returns: not found (TabixError), or records in file
\* order
Answers(c, p, room) ==
    {[found |-> FALSE, recs |-> <<>>]} \cup
    {[found |-> TRUE, recs |-> s] : s \in RecLists(WellFormed(c, p), room)}

\* the same for a source that may hold malformed records
AnswersCorrupt(c, p, room) ==
    {[found |-> FALSE, recs |-> <<>>]} \cup
    {[found |-> TRUE, recs |-> s] :
        s \in RecLists(WellFormed(c, p) \cup Malformed(c, p), room)}

SourceAnswers(corrupt, c, p, room) ==
    IF corrupt THEN AnswersCorrupt(c, p, room) ELSE Answers(c, p, room)

RECURSIVE SumLen(_, _)
SumLen(f, S) ==
    IF S = {} THEN 0
    ELSE LET k == CHOOSE k \in S : TRUE
         IN Len(f[k].recs) + SumLen(f, S \ {k})

TotalRecs == SumLen(ldsrc, AllKeys)

\* `if float(r2) > 0.8`
QualifiesStrict(r2) == r2 > Tau

\* `if float(r2) >= 0.8`
Qualifies(r2) == r2 >= Tau

\* float(x), int(x): ValueError on a text that is no number
IsNumber(x) == x >= 0

\* one pass of the inner loop raises ValueError: `p1, p2, r2 = ...` needs
\* three pieces, float(r2) a number, and int(p2) is only evaluated when
\* float(r2) >= 0.8.  p1 is never converted.
RecRaises(n) ==
    \/ Len(n) # 3
    \/ ~IsNumber(n[3])
    \/ Qualifies(n[3]) /\ ~IsNumber(n[2])

Raises(recs) == \E i \in 1..Len(recs) : RecRaises(recs[i])

\* the records the inner loop handles before it raises, all if it does not
RECURSIVE Handled(_)
Handled(recs) ==
    IF recs = <<>> \/ RecRaises(Head(recs)) THEN <<>>
    ELSE <<Head(recs)>> \o Handled(Tail(recs))

\* the inner loop over r.next(): the partners appended to ld_d[p]
RECURSIVE Partners(_)
Partners(recs) ==
    IF recs = <<>> THEN <<>>
    ELSE LET n == Head(recs)
         IN (IF Qualifies(n[3]) THEN <<n[2]>> ELSE <<>>) \o Partners(Tail(recs))

\* ld_expand never reads the pvalue column: its tables carry one value
InitOp(ops) ==
    /\ op \in ops
    /\ df \in Tables
    /\ op = "expand" => \A i \in 1..Len(df) : df[i].pvalue = 1
    /\ ld_beds \in SUBSET Chroms
    /\ ldsrc = [k \in AllKeys |-> [found |-> TRUE, recs |-> <<>>]]
    /\ queried = {}
    /\ pc = "loop"
    /\ todo = ld_beds
    /\ chrom = "none"
    /\ tdf = <<>>
    /\ j = 1
    /\ ld_d = <<>>
    /\ keep = {}
    /\ out = {}
    /\ out_snps = <<>>
    /\ bt = <<>>
    /\ raised = "none"
    /\ run = 1
    /\ out1 = {}

\* ------------------------------------------------------- ld_prune helpers
\* ld_d[p] = [] ... ld_d[p].append(int(p2))
Put(d, p, ps) == [q \in (DOMAIN d) \cup {p} |-> IF q = p THEN ps ELSE d[q]]

\* cols: every position some queried position lists as a partner
Columns(d) == UNION {Range(d[p]) : p \in DOMAIN d}

\* t.index and t.columns after relabelling with '{}:{}'.format(chrom, x)
TIndex(c, d) == {Format(c, x) : x \in DOMAIN d}
TColumns(c, d) == {Format(c, x) : x \in Columns(d)}

\* the difference taken the wrong way round
IsolatedSwapped(c, d) == TColumns(c, d) \ TIndex(c, d)

\* isolated only when the SNP has no partner of its own either
IsolatedNoPartners(c, d) ==
    {Format(c, x) : x \in {x \in DOMAIN d : d[x] = <<>>}} \ TColumns(c, d)

\* set(t.index) - set(t.columns)
Isolated(c, d) == TIndex(c, d) \ TColumns(c, d)

\* the columns, not intersected with the index
IndSetNoIndex(c, d) == TColumns(c, d)

\* set(t.columns) & set(t.index)
IndSet(c, d) == TColumns(c, d) \cap TIndex(c, d)

\* the adjacency matrix entry t.ix[a, b] (labels), set by t.ix[k, ld_d[k]] = 1
Entry(c, d, a, b) ==
    IF \E x \in DOMAIN d : \E y \in Range(d[x]) :
           Format(c, x) = a /\ Format(c, y) = b
    THEN 1 ELSE 0

\* a directed graph: only the row's own nonzero entries
EdgeDirected(c, d, ind, a, b) == Entry(c, d, ind[a], ind[b]) # 0

\* nx.Graph(t.values) on t.ix[ind, ind]: nodes are the row numbers of ind, an
\* edge for every nonzero entry, in either direction
Edge(c, d, ind, a, b) ==
    \/ Entry(c, d, ind[a], ind[b]) # 0
    \/ Entry(c, d, ind[b], ind[a]) # 0

RECURSIVE Reach(_, _, _, _)
Reach(c, d, ind, S) ==
    LET N == S \cup {b \in 1..Len(ind) : \E a \in S : Edge(c, d, ind, a, b)}
    IN IF N = S THEN S ELSE Reach(c, d, ind, N)

\* nx.connected_components(g)
Components(c, d, ind) == {Reach(c, d, ind, {a}) : a \in 1..Len(ind)}

RECURSIVE Ascending(_)
Ascending(S) ==
    IF S = {} THEN <<>>
    ELSE LET m == CHOOSE a \in S : \A b \in S : a <= b
         IN <<m>> \o Ascending(S \ {m})

\* s = tdf.ix[t.index[sg]]
SubTable(t, ind, sg) ==
    LET nodes == Ascending(sg)
    IN [i \in 1..Len(nodes) |-> Ix(t, ind[nodes[i]])]

\* s.pvalue.max()
MaxP(s) == CHOOSE m \in {s[i].pvalue : i \in 1..Len(s)} :
               \A i \in 1..Len(s) : m >= s[i].pvalue

\* s.pvalue.min()
MinP(s) == CHOOSE m \in {s[i].pvalue : i \in 1..Len(s)} :
               \A i \in 1..Len(s) : m <= s[i].pvalue

\* s[s.pvalue == s.pvalue.min()].index[0]
Representative(s) ==
    s[CHOOSE i \in 1..Len(s) :
          /\ s[i].pvalue = MinP(s)
          /\ \A k \in 1..(i - 1) : s[k].pvalue # MinP(s)].key

\* ------------------------------------------------------- ld_prune actions
\* `for chrom in ld_beds.keys()`: tdf = ..., f = tabix.open(ld_beds[chrom]).
\* A file that cannot be opened raises out of the call.  The second call of
\* a double prune opens the files the first one opened.
PruneOpen ==
    /\ op = "prune" /\ pc = "loop" /\ todo # {}
    /\ \E c \in todo : \E ok \in BOOLEAN :
        /\ run = 2 => ok
        /\ chrom' = c
        /\ todo' = todo \ {c}
        /\ tdf' = RowsOn(df, c)
        /\ j' = 1
        /\ ld_d' = <<>>
        /\ IF ok THEN pc' = "query" /\ raised' = raised
           ELSE pc' = "done" /\ raised' = "TabixError"
    /\ UNCHANGED <<op, df, ld_beds, ldsrc, queried, keep, out, out_snps, bt,
                   run, out1>>

\* one pass of `for j in tdf.index`: the point query and the loop over its
\* records, of an intact source or of one that may be corrupt.
\* `except TabixError` names nothing ld_prune can see (only the module
\* tabix is imported), so any exception that reaches it, the TabixError of
\* the query or the ValueError of a record, ends the call with NameError.
PruneQueryOn(corrupt) ==
    /\ op = "prune" /\ pc = "query" /\ j <= Len(tdf)
    /\ LET p == tdf[j].end
           k == <<chrom, p>>
       IN \E a \in (IF k \in queried THEN {ldsrc[k]}
                    ELSE SourceAnswers(corrupt, chrom, p,
                                       MaxRecs - TotalRecs)) :
            /\ ldsrc' = [ldsrc EXCEPT ![k] = a]
            /\ queried' = queried \cup {k}
            /\ ld_d' = Put(ld_d, p, Partners(Handled(a.recs)))
            /\ IF a.found /\ ~Raises(a.recs)
               THEN /\ j' = j + 1
                    /\ UNCHANGED <<pc, raised>>
               ELSE /\ pc' = "done"
                    /\ raised' = "NameError"
                    /\ UNCHANGED j
    /\ UNCHANGED <<op, df, ld_beds, todo, chrom, tdf, keep, out, out_snps, bt,
                   run, out1>>

\* the sources are intact
PruneQuery == PruneQueryOn(FALSE)

\* the sources may be corrupt
PruneQueryCorrupt == PruneQueryOn(TRUE)

\* the rest of the chromosome's pass: adjacency matrix, isolated SNPs, one
\* SNP per connected component.  list(set(...)) fixes some order of ind.
PruneResolve ==
    /\ op = "prune" /\ pc = "query" /\ j > Len(tdf)
    /\ \E ind \in Perms(IndSet(chrom, ld_d)) :
         keep' = keep \cup Isolated(chrom, ld_d) \cup
                 {Representative(SubTable(tdf, ind, sg)) :
                      sg \in Components(chrom, ld_d, ind)}
    /\ pc' = "loop"
    /\ UNCHANGED <<op, df, ld_beds, ldsrc, queried, todo, chrom, tdf, j, ld_d,
                   out, out_snps, bt, raised, run, out1>>

\* out = df.ix[keep]: the rows labelled by keep.  out is the set of the
\* returned rows; they come in the order of the set keep, which the caller
\* meets when it reads the frame (PruneAgain).
PruneReturn ==
    /\ op = "prune" /\ pc = "loop" /\ todo = {}
    /\ out' = {Ix(df, k) : k \in keep}
    /\ pc' = "done"
    /\ chrom' = "none" /\ tdf' = <<>> /\ j' = 1 /\ ld_d' = <<>>
    /\ UNCHANGED <<op, df, ld_beds, ldsrc, queried, todo, keep, out_snps, bt,
                   raised, run, out1>>

\* ld_prune(ld_prune(T, L), L): the caller prunes the returned table again
PruneAgain ==
    /\ op = "prune" /\ pc = "done" /\ raised = "none" /\ run = 1
    /\ run' = 2
    /\ out1' = out
    /\ \E o \in Perms(out) : df' = o
    /\ pc' = "loop"
    /\ todo' = ld_beds
    /\ chrom' = "none"
    /\ tdf' = <<>>
    /\ j' = 1
    /\ ld_d' = <<>>
    /\ keep' = {}
    /\ out' = {}
    /\ UNCHANGED <<op, ld_beds, ldsrc, queried, out_snps, bt, raised>>

\* ------------------------------------------------------ ld_expand helpers
\* one line '{}\t{}\t{}\t{}\n' of the bed string
Interval(c, s, e, name) == [chrom |-> c, start |-> s, end |-> e, name |-> name]

\* the inner loop over r.next(): one line per record with r2 >= 0.8
RECURSIVE PartnerLines(_, _)
PartnerLines(c, recs) ==
    IF recs = <<>> THEN <<>>
    ELSE LET n == Head(recs)
         IN (IF Qualifies(n[3])
             THEN <<Interval(c, n[2] - 1, n[2], Format(c, n[2]))>>
             ELSE <<>>) \o PartnerLines(c, Tail(recs))

BedLess(a, b) ==
    \/ ChromRank(a.chrom) < ChromRank(b.chrom)
    \/ a.chrom = b.chrom /\ a.start < b.start

RECURSIVE Insert(_, _)
Insert(x, s) ==
    IF s = <<>> THEN <<x>>
    ELSE IF BedLess(x, Head(s)) THEN <<x>> \o s
    ELSE <<Head(s)>> \o Insert(x, Tail(s))

\* a sort that keeps one of every group of equal intervals
RECURSIVE SortBedUnique(_)
SortBedUnique(s) ==
    IF s = <<>> THEN <<>>
    ELSE LET rest == SortBedUnique(SubSeq(s, 1, Len(s) - 1))
         IN IF s[Len(s)] \in Range(rest) THEN rest ELSE Insert(s[Len(s)], rest)

\* bt.sort(): by chromosome, then start
RECURSIVE SortBed(_)
SortBed(s) ==
    IF s = <<>> THEN <<>>
    ELSE Insert(s[Len(s)], SortBed(SubSeq(s, 1, Len(s) - 1)))

\* ------------------------------------------------------ ld_expand actions
\* `for chrom in ld_beds.keys()`: t = tabix.open(ld_beds[chrom]), tdf = ...
ExpandOpen ==
    /\ op = "expand" /\ pc = "loop" /\ todo # {}
    /\ \E c \in todo : \E ok \in BOOLEAN :
        /\ chrom' = c
        /\ todo' = todo \ {c}
        /\ j' = 1
        /\ IF ok
           THEN /\ tdf' = RowsOn(df, c)
                /\ pc' = (IF RowsOn(df, c) = <<>> THEN "loop" ELSE "query")
                /\ raised' = raised
           ELSE /\ tdf' = <<>>
                /\ pc' = "done"
                /\ raised' = "TabixError"
    /\ UNCHANGED <<op, df, ld_beds, ldsrc, queried, ld_d, keep, out, out_snps,
                   bt, run, out1>>

\* one pass of `for ind in tdf.index`: the variant's own line, then the
\* query; `except tabix.TabixError: continue` goes on to the next variant,
\* the ValueError of a record is not caught and leaves the call
ExpandQueryOn(corrupt) ==
    /\ op = "expand" /\ pc = "query" /\ j <= Len(tdf)
    /\ LET p == tdf[j].end
           k == <<chrom, p>>
           self == Interval(chrom, p - 1, p, tdf[j].key)
       IN \E a \in (IF k \in queried THEN {ldsrc[k]}
                    ELSE SourceAnswers(corrupt, chrom, p,
                                       MaxRecs - TotalRecs)) :
            /\ ldsrc' = [ldsrc EXCEPT ![k] = a]
            /\ queried' = queried \cup {k}
            /\ out_snps' = out_snps \o <<self>> \o
                           PartnerLines(chrom, Handled(a.recs))
            /\ IF Raises(a.recs)
               THEN /\ pc' = "done"
                    /\ raised' = "ValueError"
                    /\ UNCHANGED j
               ELSE /\ j' = j + 1
                    /\ pc' = (IF j + 1 > Len(tdf) THEN "loop" ELSE "query")
                    /\ UNCHANGED raised
    /\ UNCHANGED <<op, df, ld_beds, todo, chrom, tdf, ld_d, keep, out, bt,
                   run, out1>>

\* the sources are intact
ExpandQuery == ExpandQueryOn(FALSE)

\* the sources may be corrupt
ExpandQueryCorrupt == ExpandQueryOn(TRUE)

\* bt = pbt.BedTool(''.join(out_snps), from_string=True); bt = bt.sort()
ExpandReturn ==
    /\ op = "expand" /\ pc = "loop" /\ todo = {}
    /\ bt' = SortBed(out_snps)
    /\ pc' = "done"
    /\ chrom' = "none" /\ tdf' = <<>> /\ j' = 1
    /\ UNCHANGED <<op, df, ld_beds, ldsrc, queried, todo, ld_d, keep, out,
                   out_snps, raised, run, out1>>

\* one call of ld_prune or of ld_expand
Init == InitOp({"prune", "expand"})

Next ==
    \/ PruneOpen
    \/ PruneQuery
    \/ PruneResolve
    \/ PruneReturn
    \/ ExpandOpen
    \/ ExpandQuery
    \/ ExpandReturn

Spec == Init /\ [][Next]_vars

\* ld_prune applied to its own result
InitTwice == InitOp({"prune"})

NextTwice ==
    \/ PruneOpen
    \/ PruneQuery
    \/ PruneResolve
    \/ PruneReturn
    \/ PruneAgain

SpecTwice == InitTwice /\ [][NextTwice]_vars

\* one call of ld_prune or of ld_expand on sources that may be corrupt
NextCorrupt ==
    \/ PruneOpen
    \/ PruneQueryCorrupt
    \/ PruneResolve
    \/ PruneReturn
    \/ ExpandOpen
    \/ ExpandQueryCorrupt
    \/ ExpandReturn

SpecCorrupt == Init /\ [][NextCorrupt]_vars

\* ================================================================ claims
\* the call returned (no exception left it)
Returned(o) == op = o /\ pc = "done" /\ raised = "none"

OutKeys == {r.key : r \in out}

\* the 1-based positions of the input variants on chromosome c
InputPos(c) == {df[i].end : i \in {i \in 1..Len(df) : df[i].chrom = c}}

PValueAt(c, p) == df[CHOOSE i \in 1..Len(df) : df[i].key = <<c, p>>].pvalue

\* the partner positions the source of c reports for p with r2 >= 0.8
Reported(c, p) ==
    {n[2] : n \in {n \in Range(ldsrc[<<c, p>>].recs) : n[3] >= 8000}}

\* C1: every key of ld_prune's result is a key of the input table, no key
\* is returned twice, and the result has at most as many rows as the input.
C1_OutputWithinInput ==
    Returned("prune") =>
        /\ OutKeys \subseteq IndexOf(df)
        /\ Cardinality(out) <= Len(df)
        /\ \A a, b \in out : a # b => a.key # b.key
        /\ out \subseteq Range(df)

\* a call that dropped a variant and whose kept variant has a partner that is
\* not an input variant
C1_Witness ==
    /\ Returned("prune")
    /\ 1 <= Cardinality(out) /\ Cardinality(out) < Len(df)
    /\ \E k \in OutKeys : \E q \in Reported(k[1], k[2]) :
           <<k[1], q>> \notin IndexOf(df)

\* --- the LD graph of the claim: input positions and discovered partners
LDLinked(c, a, b) ==
    \/ a \in InputPos(c) /\ b \in Reported(c, a)
    \/ b \in InputPos(c) /\ a \in Reported(c, b)

LDVertices(c) ==
    InputPos(c) \cup UNION {Reported(c, p) : p \in InputPos(c)}

RECURSIVE LDComponent(_, _)
LDComponent(c, S) ==
    LET N == S \cup {b \in LDVertices(c) : \E a \in S : LDLinked(c, a, b)}
    IN IF N = S THEN S ELSE LDComponent(c, N)

\* exactly one variant of the set vs is retained and it has the least
\* p-value of vs
OneMostSignificantKept(c, vs) ==
    /\ Cardinality({p \in vs : <<c, p>> \in OutKeys}) = 1
    /\ \A p \in vs : <<c, p>> \in OutKeys =>
           \A q \in vs : PValueAt(c, p) <= PValueAt(c, q)

Listed(c) ==
    {p \in InputPos(c) : \E q \in InputPos(c) : p \in Reported(c, q)}

RECURSIVE ListedComponent(_, _)
ListedComponent(c, S) ==
    LET N == S \cup {b \in Listed(c) : \E a \in S : LDLinked(c, a, b)}
    IN IF N = S THEN S ELSE ListedComponent(c, N)

C3_RetainedIndependent ==
    Returned("prune") =>
        \A a, b \in OutKeys :
            (a # b /\ a[1] = b[1]) => b[2] \notin Reported(a[1], a[2])

\* C4: every input variant on a chromosome without an entry in the LD-source
\* mapping is in ld_prune's result.
C4_PrunePassThrough ==
    Returned("prune") =>
        \A i \in 1..Len(df) : df[i].chrom \notin ld_beds => df[i].key \in OutKeys

\* C5: ld_expand's result has at least as many intervals as the table has
\* rows, and holds the interval [end-1, end) labelled with its key for every
\* input variant, also on chromosomes absent from the mapping.
C5_ExpandKeepsInput ==
    Returned("expand") =>
        /\ Len(bt) >= Len(df)
        /\ \A i \in 1..Len(df) :
               Interval(df[i].chrom, df[i].end - 1, df[i].end, df[i].key)
                   \in Range(bt)

\* C6: pruning the result of ld_prune again, with the same LD sources,
\* returns exactly the rows of the first result.
C6_PruneIdempotent ==
    (Returned("prune") /\ run = 2) =>
        out = out1

\* a second call has returned, on a first result from which a queried
\* variant had been dropped and in which a kept variant has a partner
C6_Witness ==
    /\ Returned("prune") /\ run = 2
    /\ 1 <= Cardinality(out1) /\ Cardinality(out1) < Cardinality(queried)
    /\ \E k \in OutKeys : Reported(k[1], k[2]) # {}

\* C7: when several variants of one component share the least p-value, the
\* retained one is the first of them in the order of the input table.
C7_FirstInTableOrder ==
    Returned("prune") =>
        \A a, b \in 1..Len(df) :
            ( /\ a < b
              /\ df[a].chrom = df[b].chrom /\ df[a].chrom \in ld_beds
              /\ df[a].end \in Listed(df[a].chrom)
              /\ df[b].end \in ListedComponent(df[a].chrom, {df[a].end})
              /\ df[a].pvalue = df[b].pvalue
              /\ \A q \in ListedComponent(df[a].chrom, {df[a].end}) :
                     df[a].pvalue <= PValueAt(df[a].chrom, q) )
            => df[b].key \notin OutKeys

\* the input variants of c in the set S report each other, every one of them
LinkedPairwise(c, S) ==
    \A a, b \in S : a # b => b \in Reported(c, a)

\* C8 (as claimed): of a set of two or more pairwise linked input variants
\* with one strictly most significant member, exactly that member is kept.
C8_KeepsSetMinimum ==
    Returned("prune") =>
        \A c \in ld_beds : \A S \in SUBSET InputPos(c) : \A m \in S :
            ( /\ Cardinality(S) >= 2
              /\ LinkedPairwise(c, S)
              /\ \A x \in S \ {m} : PValueAt(c, m) < PValueAt(c, x) )
            => {x \in S : <<c, x>> \in OutKeys} = {m}

\* C8 (amended): ... with one member strictly more significant than every
\* other input variant of the set's connected component, exactly that
\* member of the set is kept.
C8_KeepsComponentMinimum ==
    Returned("prune") =>
        \A c \in ld_beds : \A S \in SUBSET InputPos(c) : \A m \in S :
            ( /\ Cardinality(S) >= 2
              /\ LinkedPairwise(c, S)
              /\ \A x \in ListedComponent(c, S) \ {m} :
                     PValueAt(c, m) < PValueAt(c, x) )
            => {x \in S : <<c, x>> \in OutKeys} = {m}

\* a pairwise linked pair inside a larger component whose strict minimum is
\* in the pair, and the other two variants were dropped
C8_Witness ==
    /\ Returned("prune")
    /\ \E c \in ld_beds : \E S \in SUBSET InputPos(c) : \E m \in S :
           /\ Cardinality(S) = 2
           /\ LinkedPairwise(c, S)
           /\ Cardinality(ListedComponent(c, S)) = 3
           /\ \A x \in ListedComponent(c, S) \ {m} :
                  PValueAt(c, m) < PValueAt(c, x)
           /\ \A x \in ListedComponent(c, S) \ {m} : <<c, x>> \notin OutKeys
           /\ <<c, m>> \in OutKeys

\* no input variant of the chromosome reports p as a partner
Unlisted(c, p) == \A q \in InputPos(c) : p \notin Reported(c, q)

\* C9: once a chromosome of the mapping is resolved, every input variant on
\* it that no input variant of the chromosome reports as a partner is in
\* keep, and it is in the result when the call returns.
C9_UnlistedKept ==
    /\ (op = "prune" /\ pc = "loop") =>
           \A c \in ld_beds \ todo : \A p \in InputPos(c) :
               Unlisted(c, p) => <<c, p>> \in keep
    /\ Returned("prune") =>
           \A c \in ld_beds : \A p \in InputPos(c) :
               Unlisted(c, p) => <<c, p>> \in OutKeys

\* an unlisted variant that is the least significant of its chromosome and
\* has a partner of its own was kept, next to a variant that was dropped
C9_Witness ==
    /\ Returned("prune")
    /\ \E c \in ld_beds : \E p, q \in InputPos(c) :
           /\ Unlisted(c, p) /\ <<c, p>> \in OutKeys
           /\ Reported(c, p) # {}
           /\ PValueAt(c, q) < PValueAt(c, p)
           /\ <<c, q>> \notin OutKeys

\* C10: a returned record counts as a partner exactly when its r2 is at
\* least 0.8: in ld_prune the partner list of a queried position holds the
\* positions of those records, in ld_expand the result holds a partner's
\* interval exactly when such a record names it or it is an input variant.
C10_ThresholdInclusive ==
    /\ (op = "prune" /\ pc = "query") =>
           \A p \in DOMAIN ld_d : \A q \in PosOn(chrom) :
               q \in Range(ld_d[p]) <=>
                   \E n \in Range(ldsrc[<<chrom, p>>].recs) :
                       n[2] = q /\ n[3] >= 8000
    /\ Returned("expand") =>
           \A c \in ld_beds : \A q \in PosOn(c) :
               (\E i \in 1..Len(bt) : bt[i].chrom = c /\ bt[i].end = q) <=>
                   \/ q \in InputPos(c)
                   \/ \E p \in InputPos(c) :
                          \E n \in Range(ldsrc[<<c, p>>].recs) :
                              n[2] = q /\ n[3] >= 8000

\* a query of ld_prune returned a record at 0.8, whose partner is listed, and
\* one at 0.7999, whose partner is not
C10_Witness ==
    /\ op = "prune" /\ pc = "query"
    /\ \E p \in DOMAIN ld_d :
           \E n, m \in Range(ldsrc[<<chrom, p>>].recs) :
               /\ n[3] = 8000 /\ n[2] \in Range(ld_d[p])
               /\ m[3] = 7999 /\ m[2] \notin Range(ld_d[p])

\* an exception left the call while it was handling the variant at p on c
FailedAt(c, p) ==
    /\ pc = "done" /\ raised # "none"
    /\ chrom = c /\ j <= Len(tdf) /\ tdf[j].end = p

\* C11: a point query that raises the source's not-found condition gives
\* the variant zero partners and the call goes on: no exception leaves the
\* call at that variant, and ld_prune holds it as a vertex with no partners.
C11_NotFoundContinues ==
    \A k \in queried :
        ~ldsrc[k].found =>
            /\ ~FailedAt(k[1], k[2])
            /\ (op = "prune" /\ chrom = k[1] /\ pc = "query") =>
                   k[2] \in DOMAIN ld_d /\ ld_d[k[2]] = <<>>

\* tabix.open raised on the LD source of chromosome c and the exception
\* left the call (a TabixError of a query never leaves it)
OpenFailed(c) == pc = "done" /\ raised = "TabixError" /\ chrom = c

\* C12: an LD source that cannot be opened does not abort the call: no
\* chromosome's open failure leaves ld_prune or ld_expand as an exception.
C12_UnreadableSourceTolerated == \A c \in ld_beds : ~OpenFailed(c)

\* the record's trailing field is not integer:integer:float
IllFormed(n) ==
    \/ Len(n) # 3
    \/ \E i \in 1..3 : ~IsNumber(n[i])

\* C13: every returned record whose trailing field does not parse as
\* integer-position:integer-position:float-r2 makes the call raise at the
\* variant whose query returned it, whatever its r2.
C13_MalformedRaises ==
    \A k \in queried :
        (\E n \in Range(ldsrc[k].recs) : IllFormed(n)) =>
            FailedAt(k[1], k[2])

\* the intervals of the result that end at position q of chromosome c
Lines(c, q) == Cardinality({i \in 1..Len(bt) : bt[i].chrom = c /\ bt[i].end = q})

\* the records with r2 >= 0.8 naming q that the query at p returned
Hits(c, p, q) ==
    LET recs == ldsrc[<<c, p>>].recs
    IN Cardinality({i \in 1..Len(recs) : recs[i][2] = q /\ recs[i][3] >= 8000})

\* the same, summed over the seeds in S
RECURSIVE HitsFrom(_, _, _)
HitsFrom(c, S, q) ==
    IF S = {} THEN 0
    ELSE LET p == CHOOSE p \in S : TRUE
         IN Hits(c, p, q) + HitsFrom(c, S \ {p}, q)

\* C14: no position is put in its own partner list by ld_prune, and
\* ld_expand emits no partner interval for a seed's own position: the
\* intervals at a seed are its own line and one per qualifying record that
\* another seed's query returned.
C14_NoSelfLoop ==
    /\ (op = "prune" /\ pc = "query") =>
           \A p \in DOMAIN ld_d : p \notin Range(ld_d[p])
    /\ Returned("expand") =>
           \A c \in ld_beds : \A p \in InputPos(c) :
               Lines(c, p) = 1 + HitsFrom(c, InputPos(c) \ {p}, p)

\* the input variants on the chromosomes of the LD-source mapping
SeedKeys == {df[i].key : i \in {i \in 1..Len(df) : df[i].chrom \in ld_beds}}

\* the records with r2 >= 0.8 that the queries of the variants in K returned
RECURSIVE QualifyingOver(_)
QualifyingOver(K) ==
    IF K = {} THEN 0
    ELSE LET k == CHOOSE k \in K : TRUE
             recs == ldsrc[k].recs
         IN Cardinality({i \in 1..Len(recs) : recs[i][3] >= 8000})
            + QualifyingOver(K \ {k})

\* C15: ld_expand never deduplicates: its result holds one interval per
\* input variant on a chromosome of the mapping plus one interval
\* [p2-1, p2) labelled chrom:p2 per returned record with r2 >= 0.8, so the
\* number of intervals is the number of those variants plus the number of
\* those records, position by position and in total.
C15_ExpandNeverDeduplicates ==
    Returned("expand") =>
        /\ Len(bt) = Cardinality(SeedKeys) + QualifyingOver(SeedKeys)
        /\ \A c \in ld_beds : \A q \in PosOn(c) :
               Lines(c, q) = (IF q \in InputPos(c) THEN 1 ELSE 0)
                             + HitsFrom(c, InputPos(c), q)
        /\ \A i \in 1..Len(bt) :
               /\ bt[i].start = bt[i].end - 1
               /\ bt[i].name = Format(bt[i].chrom, bt[i].end)

\* ld_expand returned and a partner that is no input variant was reached
\* from two different seeds: it appears twice
C15_Witness ==
    /\ Returned("expand")
    /\ \E c \in ld_beds : \E q \in PosOn(c) \ InputPos(c) :
           /\ \E p1, p2 \in InputPos(c) :
                  p1 # p2 /\ Hits(c, p1, q) = 1 /\ Hits(c, p2, q) = 1
           /\ Lines(c, q) = 2

====
